---- MODULE Spec2Model ----
(***************************************************************************)
(* pyEOS: the configuration parser, serializer and differ of EOSConf       *)
(* (pyEOS/config.py) and the load/replace/rollback orchestration of EOS    *)
(* (pyEOS/eos.py).                                                         *)
(*                                                                         *)
(* A Python string is a sequence of one-character strings; the line feed   *)
(* and the carriage return are the characters LF and CR.  An OrderedDict   *)
(* is a sequence of <<key, value>> pairs with distinct keys, in insertion  *)
(* order.                                                                  *)
(***************************************************************************)
EXTENDS Integers, Sequences, FiniteSets, TLC

\* ------------------------------------------------------------------ bounds
\* Deepest nesting of replace_config calls, each but the first made by the
\* rollback of the one before; the interpreter's recursion limit.
MaxDepth == 3
\* Longest configuration text, in lines, handed to the parser.
MaxLines == 3
\* Longest configuration text, in lines, of the two trees that are diffed.
MaxDiffLines == 3

\* -------------------------------------------------------------- characters
SP == " "
BANG == "!"
LF == "LF"
CR == "CR"

\* Python's None and a local name that was never bound: neither is a string.
None == <<"None">>
Unbound == <<"Unbound">>

\* str.strip() with no argument strips whitespace.
Whitespace == {SP, LF, CR}

\* ------------------------------------------------------ string primitives
\* s.startswith(p)
StartsWith(s, p) ==
    /\ Len(p) <= Len(s)
    /\ \A i \in 1..Len(p) : s[i] = p[i]

\* Index of the first character of s not in cs, Len(s)+1 when there is none.
RECURSIVE FirstNotIn(_, _, _)
FirstNotIn(s, cs, i) ==
    IF i > Len(s) THEN i
    ELSE IF s[i] \in cs THEN FirstNotIn(s, cs, i + 1) ELSE i

\* Index of the last character of s not in cs, 0 when there is none.
RECURSIVE LastNotIn(_, _, _)
LastNotIn(s, cs, i) ==
    IF i < 1 THEN 0
    ELSE IF s[i] \in cs THEN LastNotIn(s, cs, i - 1) ELSE i

\* s.strip(chars): both ends stripped of the characters of cs.
StripChars(s, cs) ==
    LET a == FirstNotIn(s, cs, 1)
        b == LastNotIn(s, cs, Len(s))
    IN  IF a > b THEN <<>> ELSE SubSeq(s, a, b)

\* s.strip()
Strip(s) == StripChars(s, Whitespace)

\* str.splitlines(): the text cut at every LF, CR and CR LF, the line ends
\* dropped and no empty line after a final line end.
RECURSIVE SplitFrom(_, _, _)
SplitFrom(s, i, cur) ==
    IF i > Len(s) THEN (IF cur = <<>> THEN <<>> ELSE <<cur>>)
    ELSE IF s[i] = LF THEN <<cur>> \o SplitFrom(s, i + 1, <<>>)
    ELSE IF s[i] = CR THEN
        IF i < Len(s) /\ s[i + 1] = LF
        THEN <<cur>> \o SplitFrom(s, i + 2, <<>>)
        ELSE <<cur>> \o SplitFrom(s, i + 1, <<>>)
    ELSE SplitFrom(s, i + 1, Append(cur, s[i]))

splitlines(s) == SplitFrom(s, 1, <<>>)

\* file.readlines(): the text cut after every LF, the line ends kept (a file
\* opened with mode 'r' gets no newline translation).
RECURSIVE ReadFrom(_, _, _)
ReadFrom(s, i, cur) ==
    IF i > Len(s) THEN (IF cur = <<>> THEN <<>> ELSE <<cur>>)
    ELSE IF s[i] = LF THEN <<Append(cur, LF)>> \o ReadFrom(s, i + 1, <<>>)
    ELSE ReadFrom(s, i + 1, Append(cur, s[i]))

readlines(s) == ReadFrom(s, 1, <<>>)

\* -------------------------------------------------------------- OrderedDict
ODEmpty == <<>>

\* od.keys(), in insertion order
ODKeys(od) == [i \in 1..Len(od) |-> od[i][1]]

ODKeySet(od) == {od[i][1] : i \in 1..Len(od)}

\* k in od
ODHas(od, k) == \E i \in 1..Len(od) : od[i][1] = k

\* od[k], for a key of od
ODGet(od, k) == od[CHOOSE i \in 1..Len(od) : od[i][1] = k][2]

\* od[k] = v: a key already there keeps its place, a new key goes last.
ODSet(od, k, v) ==
    IF ODHas(od, k)
    THEN [i \in 1..Len(od) |-> IF od[i][1] = k THEN <<k, v>> ELSE od[i]]
    ELSE Append(od, <<k, v>>)

\* The node the parser creates for a depth-1 or depth-2 line.
NewNode == [comments |-> <<>>, cmds |-> ODEmpty]

\* ------------------------------------------------------------------- parser
\* The six-space and three-space prefixes tested by the parser.
Indent6 == <<SP, SP, SP, SP, SP, SP>>
Indent3 == <<SP, SP, SP>>

\* The locals of _parse_config before the loop; exc is the exception that
\* ended the loop, "none" while it runs.
ParseInit ==
    [cmds |-> ODEmpty, prev_key |-> None, sub_prev_key |-> Unbound, exc |-> "none"]

\* The test that makes the loop skip a line.
IsIgnored(line) == Strip(line) = <<>> \/ StartsWith(line, <<BANG>>)

\* Mutant of Classify: the three-space test comes before the six-space test.
ClassifyThreeFirst(line) ==
    IF IsIgnored(line) THEN 0
    ELSE IF StartsWith(line, Indent3) THEN 2
    ELSE IF StartsWith(line, Indent6) THEN 3
    ELSE 1

\* if/elif chain of the loop body: which branch a line takes.
Classify(line) ==
    IF IsIgnored(line) THEN 0
    ELSE IF StartsWith(line, Indent6) THEN 3
    ELSE IF StartsWith(line, Indent3) THEN 2
    ELSE 1

\* Mutant of Depth3Line: a depth-3 line without a parent is dropped.
Depth3LineLenient(st, line) ==
    IF \/ ~ODHas(st.cmds, st.prev_key)
       \/ st.sub_prev_key = Unbound
       \/ ~ODHas(ODGet(st.cmds, st.prev_key).cmds, st.sub_prev_key)
    THEN st
    ELSE
        LET root == ODGet(st.cmds, st.prev_key)
            sub == ODGet(root.cmds, st.sub_prev_key)
            sub2 == [sub EXCEPT !.cmds = ODSet(sub.cmds, Strip(line), None)]
            root2 == [root EXCEPT !.cmds = ODSet(root.cmds, st.sub_prev_key, sub2)]
        IN  [st EXCEPT !.cmds = ODSet(st.cmds, st.prev_key, root2)]

\* cmds[prev_key]['cmds'][sub_prev_key]['cmds'][line.strip()] = None
Depth3Line(st, line) ==
    IF ~ODHas(st.cmds, st.prev_key) THEN [st EXCEPT !.exc = "KeyError"]
    ELSE IF st.sub_prev_key = Unbound THEN [st EXCEPT !.exc = "UnboundLocalError"]
    ELSE
        LET root == ODGet(st.cmds, st.prev_key) IN
        IF ~ODHas(root.cmds, st.sub_prev_key) THEN [st EXCEPT !.exc = "KeyError"]
        ELSE
            LET sub == ODGet(root.cmds, st.sub_prev_key)
                sub2 == [sub EXCEPT !.cmds = ODSet(sub.cmds, Strip(line), None)]
                root2 == [root EXCEPT !.cmds = ODSet(root.cmds, st.sub_prev_key, sub2)]
            IN  [st EXCEPT !.cmds = ODSet(st.cmds, st.prev_key, root2)]

\* sub_prev_key = line.strip(); cmds[prev_key]['cmds'][sub_prev_key] = dict() ...
Depth2Line(st, line) ==
    IF ~ODHas(st.cmds, st.prev_key)
    THEN [st EXCEPT !.sub_prev_key = Strip(line), !.exc = "KeyError"]
    ELSE
        LET root == ODGet(st.cmds, st.prev_key)
            root2 == [root EXCEPT !.cmds = ODSet(root.cmds, Strip(line), NewNode)]
        IN  [st EXCEPT !.sub_prev_key = Strip(line),
                       !.cmds = ODSet(st.cmds, st.prev_key, root2)]

\* prev_key = line; cmds[line] = dict() ...
Depth1Line(st, line) ==
    [st EXCEPT !.prev_key = line, !.cmds = ODSet(st.cmds, line, NewNode)]

\* One iteration of the loop over the lines.
ParseLine(st, rawline) ==
    LET line == StripChars(rawline, {LF})
        c == Classify(line)
    IN  IF st.exc # "none" THEN st
        ELSE IF c = 0 THEN st
        ELSE IF c = 3 THEN Depth3Line(st, line)
        ELSE IF c = 2 THEN Depth2Line(st, line)
        ELSE Depth1Line(st, line)

RECURSIVE ParseLoop(_, _, _)
ParseLoop(st, lines, i) ==
    IF i > Len(lines) THEN st ELSE ParseLoop(ParseLine(st, lines[i]), lines, i + 1)

\* _parse_config of a list of lines: the locals when the function ends.
ParseLines(lines) == ParseLoop(ParseInit, lines, 1)

\* _parse_config of a string: the string is split into lines first.
ParseString(text) == ParseLines(splitlines(text))

\* _load_file: the parser over the lines of the file.
LoadFile(text) == ParseLines(readlines(text))

\* --------------------------------------------------------------- serializer
RECURSIVE Sub3Text(_, _)
Sub3Text(od, i) ==
    IF i > Len(od) THEN <<>>
    ELSE Indent6 \o od[i][1] \o <<LF>> \o Sub3Text(od, i + 1)

RECURSIVE Sub2Text(_, _)
Sub2Text(od, i) ==
    IF i > Len(od) THEN <<>>
    ELSE Indent3 \o od[i][1] \o <<LF>> \o Sub3Text(od[i][2].cmds, 1) \o Sub2Text(od, i + 1)

RECURSIVE RootText(_, _)
RootText(od, i) ==
    IF i > Len(od) THEN <<>>
    ELSE od[i][1] \o <<LF>> \o Sub2Text(od[i][2].cmds, 1) \o RootText(od, i + 1)

\* EOSConf.to_string
to_string(cmds) == RootText(cmds, 1)

\* ------------------------------------------------------------------- differ
\* What _print is handed as its config: an EOSConf object, which has the
\* attribute cmds, or a bare OrderedDict, which has not.
EOSConfObj(cmds) == [type |-> "EOSConf", cmds |-> cmds]
OrderedDictObj(od) == [type |-> "OrderedDict", items |-> od]

\* Iteration over a Python set: the order is the set's own, here the order in
\* which the keys of S occur in the sequence order.
RECURSIVE IterFrom(_, _, _)
IterFrom(S, order, i) ==
    IF i > Len(order) THEN <<>>
    ELSE IF order[i] \in S THEN <<order[i]>> \o IterFrom(S, order, i + 1)
    ELSE IterFrom(S, order, i + 1)

Iter(S, order) == IterFrom(S, order, 1)

\* for key in config.cmds[cmd]['cmds'].keys(): diff_text += '%s\n' % key
RECURSIVE ContextLines(_, _)
ContextLines(keys, i) ==
    IF i > Len(keys) THEN <<>>
    ELSE keys[i] \o <<LF>> \o ContextLines(keys, i + 1)

\* Mutant of PrintOne: the children of cmd are not written.
PrintOneNoContext(action, cmd, config) == <<action, SP>> \o cmd \o <<LF>>

\* The body of the loop of _print for one cmd: the marked line, then the
\* children of cmd; the AttributeError of config.cmds on a bare OrderedDict
\* is caught after the marked line was added.
PrintOne(action, cmd, config) ==
    <<action, SP>> \o cmd \o <<LF>> \o
        (IF config.type = "EOSConf"
         THEN ContextLines(ODKeys(ODGet(config.cmds, cmd).cmds), 1)
         ELSE <<>>)

\* compare_config._print(action, list, config)
RECURSIVE PrintFrom(_, _, _, _)
PrintFrom(action, list, config, i) ==
    IF i > Len(list) THEN <<>>
    ELSE PrintOne(action, list[i], config) \o PrintFrom(action, list, config, i + 1)

_print(action, list, config) == PrintFrom(action, list, config, 1)

\* for cmd in new: diff_text += "  + %s\n" % scmd   (and "  - " for old)
Depth3Marked(action, scmd, cmd) == <<SP, SP, action, SP>> \o scmd \o <<LF>>

RECURSIVE Depth3Lines(_, _, _, _)
Depth3Lines(action, scmd, list, i) ==
    IF i > Len(list) THEN <<>>
    ELSE Depth3Marked(action, scmd, list[i]) \o Depth3Lines(action, scmd, list, i + 1)

\* The body of "for scmd in keep": the depth-3 diff under one depth-2 key.
Depth3Diff(mine, sother, scmd, order) ==
    LET orig == ODKeySet(ODGet(mine, scmd).cmds)
        cand == ODKeySet(ODGet(sother, scmd).cmds)
        new == cand \ orig
        old == orig \ cand
    IN  IF Cardinality(new) > 0 \/ Cardinality(old) > 0
        THEN scmd \o <<LF>>
                \o Depth3Lines("+", scmd, Iter(new, order), 1)
                \o Depth3Lines("-", scmd, Iter(old, order), 1)
        ELSE <<>>

RECURSIVE Depth3Loop(_, _, _, _, _)
Depth3Loop(mine, sother, keep, order, i) ==
    IF i > Len(keep) THEN <<>>
    ELSE Depth3Diff(mine, sother, keep[i], order)
            \o Depth3Loop(mine, sother, keep, order, i + 1)

\* Mutant of RootHeader: the root key is written for every shared root.
RootHeaderAlways(add_text, rem_text) == TRUE

\* Whether the root key is written as a header before its depth-2 diff.
RootHeader(add_text, rem_text) == add_text # <<>> \/ rem_text # <<>>

\* The body of "for cmd in keep": the diff under one root both trees have.
KeptRootDiff(self_cmds, other_cmds, cmd, order) ==
    LET mine == ODGet(self_cmds, cmd).cmds
        sother == ODGet(other_cmds, cmd).cmds
        added == ODKeySet(sother) \ ODKeySet(mine)
        removed == ODKeySet(mine) \ ODKeySet(sother)
        keep == ODKeySet(sother) \cap ODKeySet(mine)
        add_text == _print("+", Iter(added, order), OrderedDictObj(sother))
        rem_text == _print("-", Iter(removed, order), OrderedDictObj(mine))
    IN  (IF RootHeader(add_text, rem_text) THEN cmd \o <<LF>> ELSE <<>>)
            \o add_text \o rem_text
            \o Depth3Loop(mine, sother, Iter(keep, order), order, 1)

RECURSIVE KeptLoop(_, _, _, _, _)
KeptLoop(self_cmds, other_cmds, keep, order, i) ==
    IF i > Len(keep) THEN <<>>
    ELSE KeptRootDiff(self_cmds, other_cmds, keep[i], order)
            \o KeptLoop(self_cmds, other_cmds, keep, order, i + 1)

\* EOSConf.compare_config(self, other), the sets iterated in the order given.
compare_config(self_cmds, other_cmds, order) ==
    LET added == ODKeySet(other_cmds) \ ODKeySet(self_cmds)
        removed == ODKeySet(self_cmds) \ ODKeySet(other_cmds)
        keep == ODKeySet(other_cmds) \cap ODKeySet(self_cmds)
    IN  _print("+", Iter(added, order), EOSConfObj(other_cmds))
            \o _print("-", Iter(removed, order), EOSConfObj(self_cmds))
            \o KeptLoop(self_cmds, other_cmds, Iter(keep, order), order, 1)

\* Every key of the two trees, at any depth: what the sets of one
\* compare_config call can hold.
TreeKeys(cmds) ==
    ODKeySet(cmds)
        \cup UNION {ODKeySet(cmds[i][2].cmds) : i \in 1..Len(cmds)}
        \cup UNION {UNION {ODKeySet(cmds[i][2].cmds[j][2].cmds) :
                              j \in 1..Len(cmds[i][2].cmds)} : i \in 1..Len(cmds)}

\* The sequences that enumerate the set S once each.
Orders(S) ==
    {o \in [1..Cardinality(S) -> S] : \A i, j \in 1..Cardinality(S) : i # j => o[i] # o[j]}

\* ---------------------------------------------------------- bounded inputs
\* n spaces
RECURSIVE Spaces(_)
Spaces(n) == IF n = 0 THEN <<>> ELSE <<SP>> \o Spaces(n - 1)

\* The texts of at most n lines, each a line of L ended by LF.
RECURSIVE TextsUpTo(_, _)
TextsUpTo(L, n) ==
    IF n = 0 THEN {<<>>}
    ELSE LET shorter == TextsUpTo(L, n - 1)
         IN  shorter \cup {t \o l \o <<LF>> : t \in shorter, l \in L}

\* Lines of the diffed configurations: two commands at each of the depths
\* and a third command at depth 1.
DiffLineSet ==
    {Spaces(n) \o b : n \in {0, 3, 6}, b \in {<<"a">>, <<"b">>}} \cup {<<"c">>}

DiffTexts == TextsUpTo(DiffLineSet, MaxDiffLines)

\* The trees the parser returns for the texts of DiffTexts.
DiffTrees ==
    {ParseString(t).cmds : t \in {u \in DiffTexts : ParseString(u).exc = "none"}}

\* ------------------------------------------------------------------- state
VARIABLES
    input,       \* the configuration text a parser run is about
    candidate,   \* candidate_config.cmds, the tree of the EOSConf object
    running,     \* running_config.cmds
    txt,         \* the last string returned by to_string, None before
    diff_text,   \* the last string returned by compare_config, None before
    prev_cmds,   \* candidate_config.cmds when the last call began
    op,          \* the last call: its name, its arguments and its exception
    device,      \* the running configuration of the device, as text
    original_config,  \* EOS.original_config
    call,        \* the replace_config call in progress, if any
    hist         \* what the last replace_config and rollback calls did

vars == <<input, candidate, running, txt, diff_text, prev_cmds, op,
          device, original_config, call, hist>>

\* The state of the EOS object and of the device.
eosvars == <<device, original_config, call, hist>>

\* An argument that was not given, a string argument, a dict argument, and
\* the path of a file that holds text.
NoArg == [t |-> "None", v |-> <<>>]
StrArg(text) == [t |-> "str", v |-> text]
DictArg(od) == [t |-> "dict", v |-> od]
FileArg(text) == [t |-> "path", v |-> text]

NoCall == [name |-> "none", filename |-> NoArg, config |-> NoArg, exc |-> "none"]

\* No replace_config call is in progress.
Idle == [pc |-> "idle", config |-> None, force |-> FALSE, depth |-> 0, by |-> "none"]

\* Nothing was replaced or rolled back yet.  Otherwise phase is "replacing",
\* "replaced", "rollingback" or "rolledback", c0 is the configuration of the
\* device when replace_config was called and c1 the tree it was to install,
\* when fromcand says that it was the candidate, not a string argument.
NoHist == [phase |-> "none", c0 |-> None, fromcand |-> FALSE, c1 |-> ODEmpty]

\* ------------------------------------------------- the differ on two trees
\* running_config.compare_config(candidate_config) on two loaded trees.
CompareTrees ==
    /\ \E order \in Orders(TreeKeys(running) \cup TreeKeys(candidate)) :
          diff_text' = compare_config(running, candidate, order)
    /\ op' = [NoCall EXCEPT !.name = "compare_config"]
    /\ UNCHANGED <<input, candidate, running, txt, prev_cmds, eosvars>>

\* Two EOSConf objects, each holding a tree the parser returned.
InitDiff ==
    /\ running \in DiffTrees
    /\ candidate \in DiffTrees
    /\ input = <<>>
    /\ txt = None
    /\ diff_text = None
    /\ prev_cmds = ODEmpty
    /\ op = NoCall
    /\ device = <<>>
    /\ original_config = None
    /\ call = Idle
    /\ hist = NoHist

NextDiff == CompareTrees

SpecDiff == InitDiff /\ [][NextDiff]_vars

\* ------------------------------------------------- vocabulary of the claims
\* The lines of a text that ends every line with LF.
RECURSIVE LinesFrom(_, _, _)
LinesFrom(s, i, cur) ==
    IF i > Len(s) THEN (IF cur = <<>> THEN <<>> ELSE <<cur>>)
    ELSE IF s[i] = LF THEN <<cur>> \o LinesFrom(s, i + 1, <<>>)
    ELSE LinesFrom(s, i + 1, Append(cur, s[i]))

Lines(s) == LinesFrom(s, 1, <<>>)

\* The depth-2 keys under root r and the depth-3 keys under r, k.
Depth2Keys(cmds, r) == ODKeySet(ODGet(cmds, r).cmds)
Depth3Keys(cmds, r, k) == ODKeySet(ODGet(ODGet(cmds, r).cmds, k).cmds)

\* Same root keys, same depth-2 keys under every root, same depth-3 keys
\* under every depth-2 key: equality of trees up to sibling order.
SameKeySets(A, B) ==
    /\ ODKeySet(A) = ODKeySet(B)
    /\ \A r \in ODKeySet(A) :
          /\ Depth2Keys(A, r) = Depth2Keys(B, r)
          /\ \A k \in Depth2Keys(A, r) : Depth3Keys(A, r, k) = Depth3Keys(B, r, k)

\* The subtrees under root r are equal up to sibling order.
SameSubtree(A, B, r) ==
    /\ Depth2Keys(A, r) = Depth2Keys(B, r)
    /\ \A k \in Depth2Keys(A, r) : Depth3Keys(A, r, k) = Depth3Keys(B, r, k)

\* "<mark> <key>" followed by the keys of od[key], for every key of keys.
RECURSIVE MarkedBlocks(_, _, _, _)
MarkedBlocks(mark, keys, od, i) ==
    IF i > Len(keys) THEN <<>>
    ELSE <<(<<mark, SP>> \o keys[i])>> \o ODKeys(ODGet(od, keys[i]).cmds)
            \o MarkedBlocks(mark, keys, od, i + 1)

\* "  <mark> <key>" for every key of keys.
IndentedMarked(mark, keys) ==
    [i \in 1..Len(keys) |-> <<SP, SP, mark, SP>> \o keys[i]]

\* block occurs in ls as consecutive lines.
OccursIn(block, ls) ==
    \E i \in 0..(Len(ls) - Len(block)) :
        \A j \in 1..Len(block) : ls[i + j] = block[j]

IsPrefix(block, ls) ==
    /\ Len(block) <= Len(ls)
    /\ \A j \in 1..Len(block) : ls[j] = block[j]

Compared == op.name = "compare_config"

\* C1: compare_config returns the empty string for two trees with the same
\* root keys, the same depth-2 keys under every root and the same depth-3
\* keys under every depth-2 key, whatever the order of the siblings; in
\* particular for a tree and itself.
C1_SameKeySetsEmptyDiff ==
    (Compared /\ SameKeySets(running, candidate)) => diff_text = <<>>

\* C1 witness: a tree with nested keys was compared with a tree of the same
\* key sets whose siblings are in another order.
C1_Witness ==
    /\ Compared
    /\ SameKeySets(running, candidate)
    /\ running # candidate
    /\ \E r \in ODKeySet(running) : Depth2Keys(running, r) # {}
    /\ diff_text = <<>>

\* C2 (as claimed): for every root of both trees and every depth-2 key of
\* both under it whose depth-3 keys differ, the diff holds the depth-2 key as
\* a header followed by one "  + <depth-3 key>" line per depth-3 key only in the
\* `to` tree and one "  - <depth-3 key>" line per depth-3 key only in the
\* `from` tree.
C2_Depth3LinesNameDepth3Keys ==
    Compared =>
        \A r \in ODKeySet(running) \cap ODKeySet(candidate) :
        \A k \in Depth2Keys(running, r) \cap Depth2Keys(candidate, r) :
            LET new == Depth3Keys(candidate, r, k) \ Depth3Keys(running, r, k)
                old == Depth3Keys(running, r, k) \ Depth3Keys(candidate, r, k)
            IN  (new # {} \/ old # {}) =>
                    \E on \in Orders(new), oo \in Orders(old) :
                        OccursIn(<<k>> \o IndentedMarked("+", on)
                                       \o IndentedMarked("-", oo),
                                 Lines(diff_text))

\* The added and the removed roots of the last comparison.
AddedRoots == ODKeySet(candidate) \ ODKeySet(running)
RemovedRoots == ODKeySet(running) \ ODKeySet(candidate)
KeptRoots == ODKeySet(candidate) \cap ODKeySet(running)

\* C3: the diff begins with one block per root only in `to` ("+ <key>" and
\* then the depth-2 keys of that root in `to`, bare), followed by one block
\* per root only in `from` ("- <key>" and then its depth-2 keys in `from`);
\* whatever is written for the roots of both trees comes after these blocks,
\* and nothing comes after them when every shared root has equal subtrees.
C3_Depth1BlocksFirst ==
    Compared =>
        \E oa \in Orders(AddedRoots), orm \in Orders(RemovedRoots) :
            LET blocks == MarkedBlocks("+", oa, candidate, 1)
                            \o MarkedBlocks("-", orm, running, 1)
            IN  /\ IsPrefix(blocks, Lines(diff_text))
                /\ (\A r \in KeptRoots : SameSubtree(running, candidate, r))
                       => Lines(diff_text) = blocks

\* C3 witness: a comparison with an added root that has depth-2 keys, a
\* removed root, and a shared root.
C3_Witness ==
    /\ Compared
    /\ \E r \in AddedRoots : Depth2Keys(candidate, r) # {}
    /\ RemovedRoots # {}
    /\ KeptRoots # {}
    /\ diff_text # <<>>

\* C4 (as claimed): for every root of both trees whose depth-2 keys differ,
\* the diff holds the root key as a header followed by "+ <k>" and the
\* depth-3 keys of k, bare, for every depth-2 key k only in `to`, and then
\* "- <k>" and the depth-3 keys of k for every depth-2 key k only in `from`.
C4_Depth2BlocksWithChildren ==
    Compared =>
        \A r \in KeptRoots :
            LET mine == ODGet(running, r).cmds
                sother == ODGet(candidate, r).cmds
                added == ODKeySet(sother) \ ODKeySet(mine)
                removed == ODKeySet(mine) \ ODKeySet(sother)
            IN  (added # {} \/ removed # {}) =>
                    \E oa \in Orders(added), orm \in Orders(removed) :
                        OccursIn(<<r>> \o MarkedBlocks("+", oa, sother, 1)
                                       \o MarkedBlocks("-", orm, mine, 1),
                                 Lines(diff_text))

\* ------------------------------------------------ loading an EOSConf object
\* Lines of the parsed configurations: a blank line, a comment line at
\* column 0 and an indented one, a command at the indentations around the two
\* thresholds, and a line of a file with CR LF line ends.
ParserLineSet ==
    {Spaces(3), <<BANG>>, Spaces(3) \o <<BANG>>, <<"a", CR>>}
        \cup {Spaces(n) \o <<"a">> : n \in {0, 2, 5, 6}}

ParserTexts == TextsUpTo(ParserLineSet, MaxLines)

\* The configuration an object holds before the call under study.
SeedText == <<"b", LF>> \o Spaces(3) \o <<"b", LF>>

\* EOSConf.load_config(filename, config) on an object whose tree is cmds: the
\* tree the object holds afterwards and the exception raised, if any.
load_config(cmds, filename, config) ==
    IF config.t = "dict" THEN [cmds |-> config.v, exc |-> "none"]
    ELSE IF config.t = "str" THEN
        LET st == ParseString(config.v)
        IN  IF st.exc = "none" THEN [cmds |-> st.cmds, exc |-> "none"]
            ELSE [cmds |-> cmds, exc |-> st.exc]
    ELSE IF filename.t = "path" THEN
        LET st == LoadFile(filename.v)
        IN  IF st.exc = "none" THEN [cmds |-> st.cmds, exc |-> "none"]
            ELSE [cmds |-> cmds, exc |-> st.exc]
    ELSE [cmds |-> cmds, exc |-> "TypeError"]

\* EOS.load_candidate_config(filename, config) on candidate_config.
load_candidate_config(cmds, filename, config) ==
    IF filename.t # "None"
    THEN load_config(cmds, filename, NoArg)
    ELSE load_config(cmds, NoArg, config)

\* load_config on candidate_config, with the text of the run as a file or as
\* a string, or with the seed as a string.
LoadConfig ==
    \E filename \in {NoArg, FileArg(input)},
       config \in {NoArg, StrArg(input), StrArg(SeedText)} :
        LET r == load_config(candidate, filename, config)
        IN  /\ candidate' = r.cmds
            /\ prev_cmds' = candidate
            /\ op' = [name |-> "load_config", filename |-> filename,
                      config |-> config, exc |-> r.exc]
            /\ UNCHANGED <<input, running, txt, diff_text, eosvars>>

\* candidate_config.load_config(config=candidate_config.to_string()): the
\* object serialized and parsed back.
Reload ==
    LET r == load_config(candidate, NoArg, StrArg(to_string(candidate)))
    IN  /\ txt' = to_string(candidate)
        /\ candidate' = r.cmds
        /\ prev_cmds' = candidate
        /\ op' = [name |-> "reload", filename |-> NoArg,
                  config |-> StrArg(to_string(candidate)), exc |-> r.exc]
        /\ UNCHANGED <<input, running, diff_text, eosvars>>

\* A fresh EOSConf object and the configuration text of the run.
InitParser ==
    /\ input \in ParserTexts
    /\ candidate = ODEmpty
    /\ running = ODEmpty
    /\ txt = None
    /\ diff_text = None
    /\ prev_cmds = ODEmpty
    /\ op = NoCall
    /\ device = <<>>
    /\ original_config = None
    /\ call = Idle
    /\ hist = NoHist

NextParser == LoadConfig \/ Reload

SpecParser == InitParser /\ [][NextParser]_vars

\* ------------------------------------------------------ claims on the parser
\* The last call was load_config with the text of the run, as a string or as
\* the file to read.
LoadedInputAsString ==
    op.name = "load_config" /\ op.config.t = "str" /\ op.config.v = input
LoadedInputAsFile ==
    op.name = "load_config" /\ op.config.t = "None" /\ op.filename.t = "path"
LoadedInput == LoadedInputAsString \/ LoadedInputAsFile

\* The lines the parser loop was given by that call, without their line end.
GivenLines == IF LoadedInputAsString THEN splitlines(input) ELSE Lines(input)

\* The number of spaces a line begins with.
RECURSIVE LeadingSpaces(_)
LeadingSpaces(line) ==
    IF line # <<>> /\ Head(line) = SP THEN 1 + LeadingSpaces(Tail(line)) ELSE 0

\* A line the specification calls blank or comment: nothing but white space,
\* or "!" as its first character after the leading spaces.
BlankOrComment(line) ==
    \/ \A i \in 1..Len(line) : line[i] \in Whitespace
    \/ LeadingSpaces(line) < Len(line) /\ line[LeadingSpaces(line) + 1] = BANG

\* A line the parser skips: blank, or "!" in column 0.
Skipped(line) ==
    \/ \A i \in 1..Len(line) : line[i] \in Whitespace
    \/ line # <<>> /\ Head(line) = BANG

\* The depth the indentation of a line that is not skipped stands for.
DepthOf(line) ==
    IF LeadingSpaces(line) >= 6 THEN 3
    ELSE IF LeadingSpaces(line) >= 3 THEN 2
    ELSE 1

\* The positions before i of the lines of depth d that are not skipped.
Earlier(ls, i, d) == {j \in 1..(i - 1) : ~Skipped(ls[j]) /\ DepthOf(ls[j]) = d}

Max(S) == CHOOSE x \in S : \A y \in S : y <= x

\* Line i has no active parent: a depth-2 or depth-3 line before any depth-1
\* line, or a depth-3 line with no depth-2 line since the last depth-1 line.
Orphan(ls, i) ==
    /\ ~Skipped(ls[i])
    /\ DepthOf(ls[i]) > 1
    /\ \/ Earlier(ls, i, 1) = {}
       \/ /\ DepthOf(ls[i]) = 3
          /\ \A j \in Earlier(ls, i, 2) : j < Max(Earlier(ls, i, 1))

\* C5 (as claimed): parsing the text that to_string produces for a tree the
\* parser returned yields a tree with the same root keys, the same depth-2
\* keys under every root and the same depth-3 keys under every depth-2 key.
C5_RoundTrip ==
    op.name = "reload" =>
        /\ op.exc = "none"
        /\ SameKeySets(candidate, prev_cmds)

RECURSIVE WithoutBlankOrComment(_, _)
WithoutBlankOrComment(ls, i) ==
    IF i > Len(ls) THEN <<>>
    ELSE (IF BlankOrComment(ls[i]) THEN <<>> ELSE ls[i] \o <<LF>>)
            \o WithoutBlankOrComment(ls, i + 1)

Cleaned(arg) ==
    IF arg.t \in {"str", "path"}
    THEN [arg EXCEPT !.v = WithoutBlankOrComment(Lines(arg.v), 1)]
    ELSE arg

\* C7 (as claimed): blank lines and lines whose first non-space character is
\* "!" change nothing: a load ends as the load of the same text without those
\* lines does.
C7_BlankAndCommentLinesIgnored ==
    op.name = "load_config" =>
        LET clean == load_config(prev_cmds, Cleaned(op.filename), Cleaned(op.config))
        IN  /\ op.exc = clean.exc
            /\ candidate = clean.cmds

\* The tree after the first i of the lines were parsed.
TreeAfter(ls, i) == ParseLines(SubSeq(ls, 1, i)).cmds

\* The keys of the depth-1 lines of ls, each once, in the order of their
\* first occurrence.
RECURSIVE RootsInOrder(_, _)
RootsInOrder(ls, i) ==
    IF i = 0 THEN <<>>
    ELSE LET before == RootsInOrder(ls, i - 1)
         IN  IF /\ ~Skipped(ls[i])
                /\ DepthOf(ls[i]) = 1
                /\ \A j \in 1..Len(before) : before[j] # ls[i]
             THEN Append(before, ls[i])
             ELSE before

\* C8: in a text that was parsed without error, every line that is not
\* skipped is placed by its leading spaces: with 6 or more it is, stripped, a
\* depth-3 key under the last depth-2 line of the last depth-1 line; with 3 to
\* 5 it is, stripped, a depth-2 key under the last depth-1 line; otherwise it
\* is a depth-1 key.  A depth-3 key has no children, and the roots of the tree
\* are in the order of their first occurrence.
C8_PlacedByIndentation ==
    (LoadedInput /\ op.exc = "none") =>
        LET ls == GivenLines
        IN  /\ \A i \in 1..Len(ls) :
                  ~Skipped(ls[i]) =>
                      LET tree == TreeAfter(ls, i)
                          d == DepthOf(ls[i])
                          root == ls[Max(Earlier(ls, i + 1, 1))]
                          sub == Strip(ls[Max(Earlier(ls, i + 1, 2))])
                      IN  /\ d = 1 => ls[i] \in ODKeySet(tree)
                          /\ d = 2 => /\ Earlier(ls, i, 1) # {}
                                      /\ Strip(ls[i]) \in Depth2Keys(tree, root)
                          /\ d = 3 => /\ Earlier(ls, i, 1) # {}
                                      /\ Earlier(ls, i, 2) # {}
                                      /\ Strip(ls[i]) \in Depth3Keys(tree, root, sub)
                                      /\ ODGet(ODGet(ODGet(tree, root).cmds, sub).cmds,
                                               Strip(ls[i])) = None
            /\ ODKeys(candidate) = RootsInOrder(ls, Len(ls))

\* C8 witness: a text with a line at each depth, the depth-2 line indented by
\* 5 spaces and the depth-1 line by 2, was parsed.
C8_Witness ==
    /\ LoadedInput
    /\ op.exc = "none"
    /\ \E i, j, k \in 1..Len(GivenLines) :
          /\ i < j /\ j < k
          /\ GivenLines[i] = Spaces(2) \o <<"a">>
          /\ GivenLines[j] = Spaces(5) \o <<"a">>
          /\ GivenLines[k] = Spaces(6) \o <<"a">>
    /\ \E r \in ODKeySet(candidate) : \E k \in Depth2Keys(candidate, r) :
          Depth3Keys(candidate, r, k) # {}

\* --------------------------------------------------- the EOS object, a device
\* The running configurations the device starts with.
DeviceTexts == {<<"b", LF>>, <<"a", LF>> \o Spaces(3) \o <<"b", LF>>}

\* The configuration given to replace_config as a string.
GivenConfig == <<"b", LF>>

\* The candidate configurations of the runs against the device: a nested
\* configuration and a file with CR LF line ends.
EOSCandidateTexts == {<<"a", LF>> \o Spaces(3) \o <<"b", LF>>, <<"a", CR, LF>>}

\* The configurations given to the load calls: a one-line and a nested
\* configuration, a file with CR LF line ends, and a text that starts with a
\* sub-command.
CandidateTexts ==
    {<<"a", LF>>, <<"a", LF>> \o Spaces(3) \o <<"b", LF>>, <<"a", CR, LF>>,
     Spaces(3) \o <<"b", LF>>}

EOSFilenames == {NoArg} \cup {FileArg(t) : t \in CandidateTexts}
EOSConfigs == {NoArg, DictArg(running)} \cup {StrArg(t) : t \in CandidateTexts}

\* candidate_config.load_config(filename, config)
LoadConfigEOS ==
    /\ call.pc = "idle"
    /\ \E filename \in EOSFilenames, config \in EOSConfigs :
          LET r == load_config(candidate, filename, config)
          IN  /\ candidate' = r.cmds
              /\ prev_cmds' = candidate
              /\ op' = [name |-> "load_config", filename |-> filename,
                        config |-> config, exc |-> r.exc]
    /\ UNCHANGED <<input, running, txt, diff_text, eosvars>>

\* EOS.load_candidate_config(filename, config)
LoadCandidateConfig ==
    /\ call.pc = "idle"
    /\ \E filename \in EOSFilenames, config \in EOSConfigs :
          LET r == load_candidate_config(candidate, filename, config)
          IN  /\ candidate' = r.cmds
              /\ prev_cmds' = candidate
              /\ op' = [name |-> "load_candidate_config", filename |-> filename,
                        config |-> config, exc |-> r.exc]
    /\ UNCHANGED <<input, running, txt, diff_text, eosvars>>

\* EOS.load_candidate_config with one source, a file or a string.
LoadCandidate ==
    /\ call.pc = "idle"
    /\ \E t \in EOSCandidateTexts : \E filename \in {NoArg, FileArg(t)} :
          LET r == load_candidate_config(candidate, filename, StrArg(t))
          IN  /\ candidate' = r.cmds
              /\ op' = [NoCall EXCEPT !.name = "load_candidate_config",
                                      !.exc = r.exc]
    /\ diff_text' = None
    /\ UNCHANGED <<input, running, txt, prev_cmds, eosvars>>

\* EOS.compare_config: load_running_config parses the text the device reports,
\* then running_config.compare_config(candidate_config).
CompareConfig ==
    /\ call.pc = "idle"
    /\ LET r == load_config(running, NoArg, StrArg(device))
       IN  /\ running' = r.cmds
           /\ op' = [NoCall EXCEPT !.name = "compare_config", !.exc = r.exc]
           /\ IF r.exc = "none"
              THEN \E order \in Orders(TreeKeys(r.cmds) \cup TreeKeys(candidate)) :
                      diff_text' = compare_config(r.cmds, candidate, order)
              ELSE diff_text' = diff_text
    /\ UNCHANGED <<input, candidate, txt, prev_cmds, eosvars>>

\* EOS.replace_config(config, force) up to run_commands: the configuration to
\* send is the argument or the candidate as a string, and original_config is
\* what the device reports now.
ReplaceConfig ==
    /\ call.pc = "idle"
    /\ \E force \in BOOLEAN, config \in {NoArg, StrArg(GivenConfig)} :
          /\ call' = [pc |-> "run",
                      config |-> IF config.t = "None" THEN to_string(candidate)
                                 ELSE config.v,
                      force |-> force, depth |-> 1, by |-> "replace_config"]
          /\ hist' = [phase |-> "replacing", c0 |-> device,
                      fromcand |-> config.t = "None",
                      c1 |-> IF config.t = "None" THEN candidate ELSE ODEmpty]
    /\ op' = [NoCall EXCEPT !.name = "replace_config"]
    /\ original_config' = device
    /\ diff_text' = None
    /\ UNCHANGED <<input, candidate, running, txt, prev_cmds, device>>

\* EOS.rollback(), called by the user: replace_config(config=original_config)
\* up to run_commands.
Rollback ==
    /\ call.pc = "idle"
    /\ call' = [pc |-> "run",
                config |-> IF original_config = None THEN to_string(candidate)
                           ELSE original_config,
                force |-> FALSE, depth |-> 1, by |-> "rollback"]
    /\ hist' = IF hist.phase = "replaced"
               THEN [hist EXCEPT !.phase = "rollingback"]
               ELSE NoHist
    /\ op' = [NoCall EXCEPT !.name = "rollback"]
    /\ original_config' = device
    /\ diff_text' = None
    /\ UNCHANGED <<input, candidate, running, txt, prev_cmds, device>>

\* run_commands returns the 64-character message: the device took the
\* configuration.  The innermost replace_config returns; when it was called by
\* a rollback, the replace_config that rolled back raises CommandError.
DeviceAccepts ==
    /\ call.pc = "run"
    /\ device' = call.config
    /\ call' = Idle
    /\ op' = [op EXCEPT !.exc = IF call.depth = 1 THEN "none" ELSE "CommandError"]
    /\ hist' = IF call.depth = 1 /\ hist.phase = "replacing"
               THEN [hist EXCEPT !.phase = "replaced"]
               ELSE IF call.depth = 1 /\ hist.phase = "rollingback"
               THEN [hist EXCEPT !.phase = "rolledback"]
               ELSE NoHist
    /\ UNCHANGED <<input, candidate, running, txt, diff_text, prev_cmds,
                   original_config>>

\* run_commands returns another message: the device refused, having kept its
\* configuration or taken the new one.  With force the call raises
\* CommandError; without, it calls rollback, which calls replace_config with
\* original_config, and that call reads the device into original_config.
DeviceRejects ==
    /\ call.pc = "run"
    /\ \E d \in {device, call.config} :
          /\ device' = d
          /\ IF call.force
             THEN /\ call' = Idle
                  /\ op' = [op EXCEPT !.exc = "CommandError"]
                  /\ UNCHANGED original_config
             ELSE IF call.depth >= MaxDepth
             THEN /\ call' = Idle
                  /\ op' = [op EXCEPT !.exc = "RuntimeError"]
                  /\ UNCHANGED original_config
             ELSE /\ call' = [call EXCEPT !.config = original_config,
                                          !.depth = call.depth + 1]
                  /\ original_config' = d
                  /\ UNCHANGED op
    /\ hist' = NoHist
    /\ UNCHANGED <<input, candidate, running, txt, diff_text, prev_cmds>>

\* A fresh EOS object, opened on a device that runs some configuration.
InitEOS ==
    /\ device \in DeviceTexts
    /\ candidate = ODEmpty
    /\ running = ODEmpty
    /\ original_config = None
    /\ call = Idle
    /\ hist = NoHist
    /\ input = <<>>
    /\ txt = None
    /\ diff_text = None
    /\ prev_cmds = ODEmpty
    /\ op = NoCall

\* The two load calls on a fresh EOS object.
NextLoad == LoadConfigEOS \/ LoadCandidateConfig

SpecLoad == InitEOS /\ [][NextLoad]_vars

NextEOS ==
    \/ LoadCandidate
    \/ CompareConfig
    \/ ReplaceConfig
    \/ Rollback
    \/ DeviceAccepts
    \/ DeviceRejects

SpecEOS == InitEOS /\ [][NextEOS]_vars

\* ------------------------------------------- claims on loading and rollback
\* C9 (as claimed): a load that is given a filename and a configuration
\* string stores the tree parsed from the file, with EOSConf.load_config as
\* with EOS.load_candidate_config.
C9_FileTakesPrecedence ==
    (/\ op.name \in {"load_config", "load_candidate_config"}
     /\ op.filename.t = "path"
     /\ op.config.t = "str") =>
        LET f == LoadFile(op.filename.v)
        IN  /\ op.exc = f.exc
            /\ f.exc = "none" => candidate = f.cmds

\* The part of C9 the code keeps: EOS.load_candidate_config stores the tree
\* parsed from the file.
C9_FileTakesPrecedenceInEOS ==
    (/\ op.name = "load_candidate_config"
     /\ op.filename.t = "path"
     /\ op.config.t = "str") =>
        LET f == LoadFile(op.filename.v)
        IN  /\ op.exc = f.exc
            /\ f.exc = "none" => candidate = f.cmds

\* The device runs again what it ran when replace_config was called, after a
\* replace_config and a rollback that the device both accepted.
C10_DeviceRestored == hist.phase = "rolledback" => device = hist.c0

\* compare_config after the rollback returns a diff of the configuration the
\* device ran before the replace against the candidate.
C10_SameDiffAfterRollback ==
    (hist.phase = "rolledback" /\ Compared /\ op.exc = "none") =>
        /\ running = ParseString(hist.c0).cmds
        /\ \E order \in Orders(TreeKeys(running) \cup TreeKeys(candidate)) :
              diff_text = compare_config(ParseString(hist.c0).cmds, candidate, order)

\* compare_config between the replace and the rollback returns the empty
\* string for the candidate that was installed.
C10_EmptyDiffAfterReplace ==
    (/\ hist.phase = "replaced"
     /\ hist.fromcand
     /\ candidate = hist.c1
     /\ Compared) =>
        /\ op.exc = "none"
        /\ diff_text = <<>>

\* C10 (as claimed): after a successful replace_config that installs the
\* candidate and a rollback, the device runs the configuration it ran before,
\* so compare_config returns the diff it returned before the replace, and the
\* diff taken between the replace and the rollback is empty.
C10_RollbackRestores ==
    /\ C10_DeviceRestored
    /\ C10_SameDiffAfterRollback
    /\ C10_EmptyDiffAfterReplace

\* ------------------------------------- claims on replace with rollback
\* run_commands is a synchronous call: a replace_config that waits for the
\* device gets its answer, accepted or rejected.
SpecEOSFair == SpecEOS /\ WF_vars(DeviceAccepts \/ DeviceRejects)

\* The rollback() calls on the stack of the call in progress: every
\* replace_config below the first was called by a rollback(), and so was the
\* first when the user called rollback().
RollbackAttempts ==
    IF call.by = "rollback" THEN call.depth ELSE call.depth - 1

\* A replace_config without force that waits for the device returns or
\* raises.  The nesting of rollback() calls ends with the RuntimeError of the
\* interpreter's recursion limit, which MaxDepth stands for.
C11_Terminates == (call.pc = "run" /\ ~call.force) ~> (call.pc = "idle")

\* No call has started more than one rollback: a rejected replace_config
\* rolls back once, and a rollback whose replace_config is rejected starts no
\* further rollback.
C11_AtMostOneRollback == call.pc = "run" => RollbackAttempts <= 1

\* C11 (as claimed): every replace_config with force=False eventually returns
\* or raises, whatever the device answers; a rejected replace starts at most
\* one rollback, and a rollback whose own replace is rejected starts no
\* further rollback.
C11_ReplaceTerminatesWithOneRollback ==
    /\ C11_Terminates
    /\ []C11_AtMostOneRollback

====
